---- MODULE Spec2Model ----
(***************************************************************************)
(* Model of the tkinter calculator in calculator.py.                       *)
(*                                                                         *)
(* The program state is the pair (expression, displayVar) of class         *)
(* Calculator.  Both are strings; they are modelled as sequences of        *)
(* one-character strings so that appending, slicing and comparing them     *)
(* are ordinary sequence operations.                                       *)
(*                                                                         *)
(* Button labels that are not ASCII in the source are written with ASCII   *)
(* names: "DIV" (division sign), "MUL" (multiplication sign), "MINUS"      *)
(* (minus sign U+2212), "+/-" (plus-minus sign), "BKSP" (erase-to-left).   *)
(* The one non-ASCII character a display can hold, the division sign of    *)
(* the text shown on ZeroDivisionError, is the one-character token "DIV".  *)
(***************************************************************************)
EXTENDS Integers, Sequences, FiniteSets, TLC

VARIABLES expression, displayVar, lastLabel, prevDisplay, typed

vars == <<expression, displayVar, lastLabel, prevDisplay, typed>>

(***************************************************************************)
(* Bounds of the model.                                                    *)
(***************************************************************************)
\* An append press is taken only while the buffer is shorter than this.
MaxLen == 3

\* The same bound for the presses of SpecExp.
MaxLenExp == 6

(***************************************************************************)
(* Strings.                                                                *)
(***************************************************************************)
Digits == {"0", "1", "2", "3", "4", "5", "6", "7", "8", "9"}

DigitVal(c) ==
    CASE c = "0" -> 0 [] c = "1" -> 1 [] c = "2" -> 2 [] c = "3" -> 3
      [] c = "4" -> 4 [] c = "5" -> 5 [] c = "6" -> 6 [] c = "7" -> 7
      [] c = "8" -> 8 [] c = "9" -> 9

DigitChar(d) ==
    CASE d = 0 -> "0" [] d = 1 -> "1" [] d = 2 -> "2" [] d = 3 -> "3"
      [] d = 4 -> "4" [] d = 5 -> "5" [] d = 6 -> "6" [] d = 7 -> "7"
      [] d = 8 -> "8" [] d = 9 -> "9"

\* s[a:b] of Python for 1-based inclusive bounds; empty when a > b.
Slice(s, a, b) == IF a > b THEN <<>> ELSE SubSeq(s, a, b)

\* s.startswith(c) for a one-character c.
StartsWith(s, c) == Len(s) > 0 /\ s[1] = c

\* The display texts the handler sets literally.
ZeroText == <<"0">>
ErrorText == <<"E", "r", "r", "o", "r">>
DivZeroText == <<"DIV", "0", " ", "E", "r", "r", "o", "r">>

(***************************************************************************)
(* Button labels (the grid of _buildUi) and the default branch's opMap.    *)
(***************************************************************************)
OperatorLabels == {"DIV", "MUL", "MINUS", "+"}
AllAppendLabels == Digits \cup {"."} \cup OperatorLabels

\* The default branch without its opMap: the label itself is appended.
opMapMissing(label) == label

\* opMap.get(label, label)
opMap(label) ==
    CASE label = "DIV" -> "/"
      [] label = "MUL" -> "*"
      [] label = "MINUS" -> "-"
      [] OTHER -> label

(***************************************************************************)
(* Numbers.                                                                *)
(*                                                                         *)
(* A Python value is a record [k, s, m, x]:                                *)
(*   k = "int"    the int s * m                                            *)
(*   k = "float"  the float nearest to the decimal s * m * 10^x, with m    *)
(*                carrying no trailing zero (m = 0 has x = 0; s keeps the  *)
(*                sign of a zero)                                          *)
(*   k = "inf"    the float s * infinity                                   *)
(*   k = "nan"    the float nan                                            *)
(*   k = "Ellipsis"  the object Ellipsis, which the literal "..." and the  *)
(*                builtin name Ellipsis evaluate to                        *)
(*   k = "SyntaxError", "NameError", "TypeError", "ZeroDivisionError",     *)
(*       "ValueError"  the exception raised instead of a value             *)
(*   k = "unrep"  a value outside the precision of the model (see          *)
(*                MaxDigits); a press whose outcome needs such a value is  *)
(*                not taken.                                               *)
(*                                                                         *)
(* A float is binary.  The decimal s * m * 10^x names it exactly when the  *)
(* decimal is a dyadic rational (Exact); then +, -, * are exact and / is   *)
(* the correctly rounded quotient, whose repr is the quotient's own        *)
(* decimal whenever that has at most 15 digits.  Arithmetic on a float     *)
(* that is only the nearest one to its decimal (0.1, 0.01, ...) depends on *)
(* the rounding error of the operand and yields "unrep".                   *)
(***************************************************************************)
\* Mantissas and ints of the model have at most this many decimal digits.
MaxDigits == 7

Val(k, s, m, x) == [k |-> k, s |-> s, m |-> m, x |-> x]
IntVal(s, m) == Val("int", IF m = 0 THEN 1 ELSE s, m, 0)
InfVal(s) == Val("inf", s, 0, 0)
NanVal == Val("nan", 1, 0, 0)
EllipsisVal == Val("Ellipsis", 1, 0, 0)
Raise(e) == Val(e, 1, 0, 0)
Unrep == Val("unrep", 1, 0, 0)

Exceptions ==
    {"SyntaxError", "NameError", "TypeError", "ZeroDivisionError", "ValueError"}
IsException(v) == v.k \in Exceptions
IsNumber(v) == v.k \in {"int", "float", "inf", "nan"}
IsObject(v) == IsNumber(v) \/ v.k = "Ellipsis"
IsFinite(v) == v.k \in {"int", "float"}
IsZero(v) == IsFinite(v) /\ v.m = 0

RECURSIVE Pow10(_)
Pow10(n) == IF n <= 0 THEN 1 ELSE 10 * Pow10(n - 1)

RECURSIVE IPow(_, _)
IPow(b, n) == IF n <= 0 THEN 1 ELSE b * IPow(b, n - 1)

\* Number of decimal digits of n >= 0 (0 has one digit).
RECURSIVE NumDigits(_)
NumDigits(n) == IF n < 10 THEN 1 ELSE 1 + NumDigits(n \div 10)

RECURSIVE Gcd(_, _)
Gcd(a, b) == IF b = 0 THEN a ELSE Gcd(b, a % b)

\* How many times the prime p divides n > 0.
RECURSIVE Multiplicity(_, _)
Multiplicity(n, p) == IF n % p = 0 THEN 1 + Multiplicity(n \div p, p) ELSE 0

Max(a, b) == IF a >= b THEN a ELSE b
Min(a, b) == IF a <= b THEN a ELSE b

\* The float of decimal s * m * 10^x, brought to the normal form above.
RECURSIVE FloatVal(_, _, _)
FloatVal(s, m, x) ==
    IF m = 0 THEN Val("float", s, 0, 0)
    ELSE IF m % 10 = 0 THEN FloatVal(s, m \div 10, x + 1)
    ELSE Val("float", s, m, x)

\* The float's decimal is the float itself: an integer of at most 15 digits
\* (below 2^53), or a dyadic fraction within the digits of the model.
Exact(v) ==
    /\ v.k = "float"
    /\ IF v.x >= 0 THEN NumDigits(v.m) + v.x <= 15
       ELSE -v.x <= MaxDigits /\ v.m % IPow(5, -v.x) = 0

\* float.is_integer() of a finite float.
IsInteger(v) == v.k = "float" /\ v.x >= 0

(***************************************************************************)
(* str() of a number: int.__repr__ and float.__repr__ (the shortest        *)
(* decimal that reads back as the float, in the layout of 'r' format).     *)
(***************************************************************************)
\* The decimal digits of n >= 0.
RECURSIVE DigitsOf(_)
DigitsOf(n) ==
    IF n < 10 THEN <<DigitChar(n)>>
    ELSE Append(DigitsOf(n \div 10), DigitChar(n % 10))

RECURSIVE Zeros(_)
Zeros(n) == IF n <= 0 THEN <<>> ELSE <<"0">> \o Zeros(n - 1)

SignText(s) == IF s < 0 THEN <<"-">> ELSE <<>>

\* repr of the exponent: a sign and at least two digits.
ExponentText(e) ==
    LET a == IF e < 0 THEN -e ELSE e
    IN  <<"e", IF e < 0 THEN "-" ELSE "+">>
            \o (IF a < 10 THEN <<"0">> ELSE <<>>) \o DigitsOf(a)

\* repr of a finite float: exponent layout when the decimal point would sit
\* more than 16 places right or more than 3 places left of the first digit.
FloatText(v) ==
    LET D == DigitsOf(v.m)
        n == Len(D)
        decpt == n + v.x
    IN  IF v.m = 0 THEN SignText(v.s) \o <<"0", ".", "0">>
        ELSE IF decpt > 16 \/ decpt < -3
          THEN SignText(v.s) \o <<D[1]>>
                 \o (IF n > 1 THEN <<".">> \o Slice(D, 2, n) ELSE <<>>)
                 \o ExponentText(decpt - 1)
        ELSE IF decpt <= 0
          THEN SignText(v.s) \o <<"0", ".">> \o Zeros(-decpt) \o D
        ELSE IF decpt < n
          THEN SignText(v.s) \o Slice(D, 1, decpt) \o <<".">> \o Slice(D, decpt + 1, n)
        ELSE SignText(v.s) \o D \o Zeros(decpt - n) \o <<".", "0">>

EllipsisText == <<"E", "l", "l", "i", "p", "s", "i", "s">>

\* str(value)
Str(v) ==
    CASE v.k = "int" -> SignText(v.s) \o DigitsOf(v.m)
      [] v.k = "float" -> FloatText(v)
      [] v.k = "inf" -> SignText(v.s) \o <<"i", "n", "f">>
      [] v.k = "nan" -> <<"n", "a", "n">>
      [] v.k = "Ellipsis" -> EllipsisText

\* str(int(value)) of a float that is an integer, or <<>> standing for a
\* text the model cannot produce: the float is not the decimal it holds.
FormatWholeFloat(v) ==
    IF ~Exact(v) THEN <<>>
    ELSE IF v.m = 0 THEN <<"0">>
    ELSE SignText(v.s) \o DigitsOf(v.m) \o Zeros(v.x)

\* Calculator._format: the display text of a result.
_format(value) ==
    IF value.k = "float" /\ IsInteger(value)
      THEN FormatWholeFloat(value)
      ELSE Str(value)

(***************************************************************************)
(* Reading a decimal literal: shared by float() and by the tokenizer of    *)
(* eval().                                                                 *)
(***************************************************************************)
\* The first position at or after i that holds no digit.
RECURSIVE DigitsEnd(_, _)
DigitsEnd(s, i) ==
    IF i <= Len(s) /\ s[i] \in Digits THEN DigitsEnd(s, i + 1) ELSE i

RECURSIVE StripLeadingZeros(_)
StripLeadingZeros(d) ==
    IF Len(d) > 0 /\ d[1] = "0" THEN StripLeadingZeros(Tail(d)) ELSE d

RECURSIVE StripTrailingZeros(_)
StripTrailingZeros(d) ==
    IF Len(d) > 0 /\ d[Len(d)] = "0"
      THEN StripTrailingZeros(Slice(d, 1, Len(d) - 1)) ELSE d

\* The number a sequence of at most nine digits spells.
RECURSIVE DigitsValue(_)
DigitsValue(d) ==
    IF Len(d) = 0 THEN 0
    ELSE 10 * DigitsValue(Slice(d, 1, Len(d) - 1)) + DigitVal(d[Len(d)])

\* s holds one of the characters cs at position i.
HasChar(s, i, cs) == i <= Len(s) /\ s[i] \in cs

\* The layout of a decimal literal that starts at position i:
\*   digits [a] "." digits [b] "e" sign [c0] digits [c]
ScanExponent(s, i, a, b) ==
    LET hasDot == HasChar(s, a, {"."})
        hasE == HasChar(s, b, {"e"})
        hasSign == hasE /\ HasChar(s, b + 1, {"+", "-"})
        c0 == IF hasSign THEN b + 2 ELSE b + 1
        c == IF hasE THEN DigitsEnd(s, c0) ELSE b
    IN  [ intDigits |-> Slice(s, i, a - 1),
          hasDot |-> hasDot,
          fracDigits |-> IF hasDot THEN Slice(s, a + 1, b - 1) ELSE <<>>,
          mantissaOk |-> a > i \/ (hasDot /\ b > a + 1),
          hasE |-> hasE,
          expNegative |-> hasSign /\ s[b + 1] = "-",
          expDigits |-> IF hasE THEN Slice(s, c0, c - 1) ELSE <<>>,
          expOk |-> hasE /\ c > c0,
          end |-> c ]

ScanFraction(s, i, a) ==
    ScanExponent(s, i, a, IF HasChar(s, a, {"."}) THEN DigitsEnd(s, a + 1) ELSE a)

ScanDecimal(s, i) == ScanFraction(s, i, DigitsEnd(s, i))

\* The float a decimal s * m * 10^x rounds to: infinity above the largest
\* double (1.7976931348623157e308), zero below the smallest subnormal, the
\* float named by the decimal in the normal range, and "unrep" in the
\* subnormal range, where a float carries fewer digits than the decimal.
RoundToFloat(s, m, x) ==
    LET sci == x + NumDigits(m) - 1
    IN  IF m = 0 THEN Val("float", s, 0, 0)
        ELSE IF sci > 308 THEN InfVal(s)
        ELSE IF sci = 308
          THEN IF m * Pow10(9 - NumDigits(m)) <= 179769313
                 THEN FloatVal(s, m, x) ELSE InfVal(s)
        ELSE IF sci >= -307 THEN FloatVal(s, m, x)
        ELSE IF sci < -324 THEN Val("float", s, 0, 0)
        ELSE Unrep

\* The float of a literal with sign sgn, significant digits sig followed by
\* tz zeros, fracLen of them after the point, and exponent digits ed.
DecimalOf(sgn, sig, tz, fracLen, expNegative, ed) ==
    LET e == IF Len(ed) > 5 THEN 99999 ELSE DigitsValue(ed)
    IN  IF Len(sig) > MaxDigits THEN Unrep
        ELSE RoundToFloat(sgn, DigitsValue(sig),
                          (IF expNegative THEN -e ELSE e) - fracLen + tz)

DecimalDigits(sc, sgn, all) ==
    DecimalOf(sgn, StripTrailingZeros(all),
              Len(all) - Len(StripTrailingZeros(all)),
              Len(sc.fracDigits), sc.expNegative, StripLeadingZeros(sc.expDigits))

\* The float of a scanned literal with sign sgn.
DecimalValue(sc, sgn) ==
    DecimalDigits(sc, sgn, StripLeadingZeros(sc.intDigits \o sc.fracDigits))

\* The int of a run of digits.
IntegerValue(d) ==
    LET sig == StripLeadingZeros(d)
    IN  IF Len(sig) > MaxDigits THEN Unrep ELSE IntVal(1, DigitsValue(sig))

\* float(text): an optional sign, then a decimal literal, "inf" or "nan",
\* and nothing else; ValueError otherwise.
FloatOfScan(text, sgn, body, sc) ==
    IF body = <<"i", "n", "f">> THEN InfVal(sgn)
    ELSE IF body = <<"n", "a", "n">> THEN NanVal
    ELSE IF /\ sc.mantissaOk
            /\ sc.hasE => sc.expOk
            /\ sc.end = Len(text) + 1
      THEN DecimalValue(sc, sgn)
    ELSE Raise("ValueError")

float(text) ==
    LET signed == Len(text) > 0 /\ text[1] \in {"+", "-"}
        i == IF signed THEN 2 ELSE 1
    IN  FloatOfScan(text, IF signed /\ text[1] = "-" THEN -1 ELSE 1,
                    Slice(text, i, Len(text)), ScanDecimal(text, i))

(***************************************************************************)
(* Arithmetic of eval(): Python's int and float operators on the values    *)
(* above.  An int is exact; a float takes part only when Exact.            *)
(***************************************************************************)
Limit == Pow10(MaxDigits) - 1

Usable(v) == v.k = "int" \/ Exact(v)

\* float(v) of an int or float.
ToFloat(v) == IF v.k = "int" THEN FloatVal(v.s, v.m, 0) ELSE v

\* s * m as the int or float of the given kind, "unrep" beyond MaxDigits.
Signed(n) == IF n < 0 THEN -1 ELSE 1
Abs(n) == IF n < 0 THEN -n ELSE n

Bounded(v) == IF v.m > Limit THEN Unrep ELSE v

\* -v
Negative(v) ==
    CASE v.k = "int" -> IntVal(-v.s, v.m)
      [] v.k \in {"float", "inf"} -> [v EXCEPT !.s = -v.s]
      [] OTHER -> v

\* The two operands as integers over the power of ten x, or fits = FALSE
\* when that takes more digits than the model has.
AlignedAt(a, b, x) ==
    LET fits == /\ NumDigits(a.m) + (a.x - x) <= MaxDigits
                /\ NumDigits(b.m) + (b.x - x) <= MaxDigits
    IN  [ fits |-> fits, x |-> x,
          a |-> IF fits THEN a.m * Pow10(a.x - x) ELSE 0,
          b |-> IF fits THEN b.m * Pow10(b.x - x) ELSE 0 ]

Aligned(a, b) == AlignedAt(a, b, Min(a.x, b.x))

\* The float s * |sum| * 10^x of a nonzero sum.
FloatSum(sum, x) == Bounded(FloatVal(Signed(sum), Abs(sum), x))

\* a + b of floats: exact, and a zero sum is +0.0 unless both are -0.0.
FloatAddAligned(a, b, al) ==
    IF ~(Exact(a) /\ Exact(b)) \/ ~al.fits THEN Unrep
    ELSE IF a.s * al.a + b.s * al.b = 0
      THEN Val("float", IF a.m = 0 /\ b.m = 0 /\ a.s < 0 /\ b.s < 0
                          THEN -1 ELSE 1, 0, 0)
    ELSE FloatSum(a.s * al.a + b.s * al.b, al.x)

FloatAdd(a, b) == FloatAddAligned(a, b, Aligned(a, b))

IntSum(sum) == Bounded(IntVal(Signed(sum), Abs(sum)))

\* a + b
Add(a, b) ==
    IF a.k = "int" /\ b.k = "int" THEN IntSum(a.s * a.m + b.s * b.m)
    ELSE IF IsFinite(a) /\ IsFinite(b) THEN FloatAdd(ToFloat(a), ToFloat(b))
    ELSE Unrep

\* a - b
Sub(a, b) ==
    IF a.k = "int" /\ b.k = "int" THEN IntSum(a.s * a.m - b.s * b.m)
    ELSE IF IsFinite(a) /\ IsFinite(b)
      THEN FloatAdd(ToFloat(a), Negative(ToFloat(b)))
    ELSE Unrep

\* a * b
Mul(a, b) ==
    IF ~(IsFinite(a) /\ IsFinite(b)) \/ ~(Usable(a) /\ Usable(b)) THEN Unrep
    ELSE IF NumDigits(a.m) + NumDigits(b.m) > MaxDigits + 1 THEN Unrep
    ELSE IF a.k = "int" /\ b.k = "int"
      THEN Bounded(IntVal(a.s * b.s, a.m * b.m))
    ELSE Bounded(FloatVal(a.s * b.s, a.m * b.m, a.x + b.x))

\* sgn * (n / d) * 10^x for n, d > 0 without a common factor, where 2^i and
\* 5^j are the powers of 2 and 5 in d: the decimal of the quotient when it
\* terminates within MaxDigits.
Terminating(sgn, n, d, x, i, j) ==
    LET t == Max(i, j)
    IN  IF d # IPow(2, i) * IPow(5, j) THEN Unrep
        ELSE IF NumDigits(n) + t > MaxDigits + 1 THEN Unrep
        ELSE Bounded(FloatVal(sgn, n * IPow(2, t - i) * IPow(5, t - j), x - t))

Reduced(sgn, n, d, x) ==
    Terminating(sgn, n, d, x, Multiplicity(d, 2), Multiplicity(d, 5))

QuotientBy(a, b, g) == Reduced(a.s * b.s, a.m \div g, b.m \div g, a.x - b.x)

\* The correctly rounded quotient of two exact floats, b nonzero.
Quotient(a, b) ==
    IF a.m = 0 THEN Val("float", a.s * b.s, 0, 0)
    ELSE QuotientBy(a, b, Gcd(a.m, b.m))

\* a / b
TrueDiv(a, b) ==
    IF IsZero(b) THEN Raise("ZeroDivisionError")
    ELSE IF a.k = "inf" /\ IsFinite(b) THEN InfVal(a.s * b.s)
    ELSE IF ~(IsFinite(a) /\ IsFinite(b)) \/ ~(Usable(a) /\ Usable(b)) THEN Unrep
    ELSE Quotient(ToFloat(a), ToFloat(b))

\* floor(sa * A / (sb * B)) for A >= 0, B > 0.
FloorOf(sa, A, sb, B) ==
    IF sa * sb > 0 \/ A = 0 THEN A \div B
    ELSE IF A % B = 0 THEN -(A \div B) ELSE -((A \div B) + 1)

IntFloor(f) == IntVal(Signed(f), Abs(f))

\* The float floor f of a / b; a zero floor has the sign of the quotient.
FloatFloor(a, b, f) ==
    IF f = 0 THEN Val("float", IF a.m = 0 THEN a.s * b.s ELSE 1, 0, 0)
    ELSE FloatVal(Signed(f), Abs(f), 0)

FloatFloorDiv(a, b, al) ==
    IF ~al.fits THEN Unrep ELSE FloatFloor(a, b, FloorOf(a.s, al.a, b.s, al.b))

\* a // b
FloorDiv(a, b) ==
    IF IsZero(b) THEN Raise("ZeroDivisionError")
    ELSE IF ~(IsFinite(a) /\ IsFinite(b)) \/ ~(Usable(a) /\ Usable(b)) THEN Unrep
    ELSE IF a.k = "int" /\ b.k = "int"
      THEN IntFloor(FloorOf(a.s, a.m, b.s, b.m))
    ELSE FloatFloorDiv(ToFloat(a), ToFloat(b), Aligned(ToFloat(a), ToFloat(b)))

\* b^n for b >= 2 by repeated multiplication, or -1 once it passes Limit.
RECURSIVE PowAcc(_, _, _)
PowAcc(b, n, acc) ==
    IF n = 0 THEN acc
    ELSE IF acc > Limit \div b THEN -1
    ELSE PowAcc(b, n - 1, acc * b)

NatPow(b, n) ==
    IF n = 0 THEN 1 ELSE IF b <= 1 THEN b ELSE PowAcc(b, n, 1)

\* The value of sign sgn and magnitude p * 10^(a.x * n), of the kind of a;
\* a float power is kept only when its decimal is the float itself.
PowerOf(a, n, sgn, p) ==
    IF p < 0 THEN Unrep
    ELSE IF a.k = "int" THEN IntVal(sgn, p)
    ELSE IF p = 0 THEN Val("float", sgn, 0, 0)
    ELSE IF Exact(FloatVal(sgn, p, a.x * n)) THEN FloatVal(sgn, p, a.x * n)
    ELSE Unrep

\* a ** n for a usable base and an integer n >= 0.
PowNat(a, n) ==
    PowerOf(a, n, IF a.s < 0 /\ n % 2 = 1 THEN -1 ELSE 1, NatPow(a.m, n))

\* 1 / p for the power p of a negative exponent.
Reciprocal(p) ==
    IF p.k = "unrep" THEN Unrep ELSE Quotient(FloatVal(1, 1, 0), p)

\* a ** b for usable operands, b an integer.
PowInt(a, b, n) ==
    IF b.s > 0 \/ n = 0
      THEN PowNat(IF a.k = "float" \/ b.k = "float" THEN ToFloat(a) ELSE a, n)
      ELSE Reciprocal(PowNat(ToFloat(a), n))

\* a ** b: int ** int is an int for b >= 0, and float(a) ** float(b)
\* otherwise; a zero base with a negative exponent raises.
Pow(a, b) ==
    IF IsZero(a) /\ IsFinite(b) /\ b.m # 0 /\ b.s < 0
      THEN Raise("ZeroDivisionError")
    ELSE IF ~(IsFinite(a) /\ IsFinite(b)) \/ ~(Usable(a) /\ Usable(b)) THEN Unrep
    ELSE IF b.x < 0 \/ NumDigits(b.m) + b.x > MaxDigits THEN Unrep
    ELSE PowInt(a, b, b.m * Pow10(b.x))

(***************************************************************************)
(* eval(expression): Python's tokenizer and expression grammar over the    *)
(* characters a buffer can hold, and the evaluation of the parsed          *)
(* expression, operands left to right.                                     *)
(*                                                                         *)
(*   expr   ::= term (("+" | "-") term)*                                   *)
(*   term   ::= factor (("*" | "/" | "//") factor)*                        *)
(*   factor ::= ("+" | "-") factor | power                                 *)
(*   power  ::= atom ["**" factor]                                         *)
(*   atom   ::= NUMBER | NAME | "..."                                      *)
(***************************************************************************)
\* The letters str() of a result can put into the buffer.
Letters == {"e", "i", "n", "f", "a", "E", "l", "p", "s"}

\* The keywords those letters spell.
Keywords ==
    { <<"i", "n">>, <<"i", "f">>, <<"i", "s">>, <<"a", "s">>,
      <<"e", "l", "s", "e">>, <<"e", "l", "i", "f">>, <<"p", "a", "s", "s">> }

Token(t, v, o, end) == [t |-> t, v |-> v, o |-> o, end |-> end]

\* The first position at or after i that holds neither a letter nor a digit.
RECURSIVE NameEnd(_, _)
NameEnd(s, i) ==
    IF i <= Len(s) /\ s[i] \in Letters \cup Digits THEN NameEnd(s, i + 1) ELSE i

\* The NUMBER token of the literal scanned at position i.  An exponent mark
\* without digits and an int literal with a leading zero are syntax errors.
NumberTokenOf(s, sc) ==
    IF sc.hasE /\ ~sc.expOk THEN Token("bad", Unrep, "", Len(s) + 1)
    ELSE IF sc.hasDot \/ sc.hasE
      THEN Token("num", DecimalValue(sc, 1), "", sc.end)
    ELSE IF sc.intDigits[1] = "0" /\ StripLeadingZeros(sc.intDigits) # <<>>
      THEN Token("bad", Unrep, "", Len(s) + 1)
    ELSE Token("num", IntegerValue(sc.intDigits), "", sc.end)

NumberToken(s, i) == NumberTokenOf(s, ScanDecimal(s, i))

\* The NAME token s[i .. e - 1]; a keyword is no expression.  A name in the
\* buffer is what is left of "inf", "nan" or "Ellipsis", digits appended:
\* of these only Ellipsis is bound, in builtins.
NameToken(s, i, e) ==
    IF Slice(s, i, e - 1) \in Keywords
      THEN Token("bad", Unrep, "", Len(s) + 1)
    ELSE IF Slice(s, i, e - 1) = EllipsisText
      THEN Token("name", EllipsisVal, "", e)
    ELSE Token("name", Raise("NameError"), "", e)

\* The token that starts at position i <= Len(s).
NextToken(s, i) ==
    LET c == s[i]
        d == IF i < Len(s) THEN s[i + 1] ELSE ""
    IN  IF c \in Digits \/ (c = "." /\ d \in Digits) THEN NumberToken(s, i)
        ELSE IF c \in Letters THEN NameToken(s, i, NameEnd(s, i))
        ELSE IF c = "." /\ d = "." /\ HasChar(s, i + 2, {"."})
          THEN Token("name", EllipsisVal, "", i + 3)
        ELSE IF c \in {"+", "-"} THEN Token("op", Unrep, c, i + 1)
        ELSE IF c \in {"*", "/"}
          THEN IF d = c THEN Token("op", Unrep, IF c = "*" THEN "**" ELSE "//", i + 2)
               ELSE Token("op", Unrep, c, i + 1)
        ELSE Token("bad", Unrep, "", Len(s) + 1)

RECURSIVE Tokenize(_, _)
TokenizeAfter(s, tok) == <<tok>> \o Tokenize(s, tok.end)

Tokenize(s, i) == IF i > Len(s) THEN <<>> ELSE TokenizeAfter(s, NextToken(s, i))

\* A unary or binary operator applied to evaluated operands: the first
\* exception raised wins, a syntax error precedes any evaluation.
Unary(o, v) ==
    IF v.k = "Ellipsis" THEN Raise("TypeError")
    ELSE IF o = "-" THEN Negative(v) ELSE v

Apply(o, a, b) ==
    CASE o = "+" -> Add(a, b)
      [] o = "-" -> Sub(a, b)
      [] o = "*" -> Mul(a, b)
      [] o = "/" -> TrueDiv(a, b)
      [] o = "//" -> FloorDiv(a, b)
      [] o = "**" -> Pow(a, b)

Binary(o, a, b) ==
    IF a.k = "SyntaxError" \/ b.k = "SyntaxError" THEN Raise("SyntaxError")
    ELSE IF ~IsObject(a) THEN a
    ELSE IF ~IsObject(b) THEN b
    ELSE IF a.k = "Ellipsis" \/ b.k = "Ellipsis" THEN Raise("TypeError")
    ELSE Apply(o, a, b)

IsOp(toks, i, ops) == i <= Len(toks) /\ toks[i].t = "op" /\ toks[i].o \in ops

Parsed(pos, val) == [pos |-> pos, val |-> val]

ParseAtom(toks, i) ==
    IF i <= Len(toks) /\ toks[i].t \in {"num", "name"}
      THEN Parsed(i + 1, toks[i].v)
      ELSE Parsed(Len(toks) + 2, Raise("SyntaxError"))

RECURSIVE ParseFactor(_, _)
PowerOperand(a, r) == Parsed(r.pos, Binary("**", a.val, r.val))

PowerAfter(toks, a) ==
    IF IsOp(toks, a.pos, {"**"})
      THEN PowerOperand(a, ParseFactor(toks, a.pos + 1))
      ELSE a

ParsePower(toks, i) == PowerAfter(toks, ParseAtom(toks, i))

FactorOperand(o, f) == Parsed(f.pos, Unary(o, f.val))

ParseFactor(toks, i) ==
    IF IsOp(toks, i, {"+", "-"})
      THEN FactorOperand(toks[i].o, ParseFactor(toks, i + 1))
      ELSE ParsePower(toks, i)

RECURSIVE ParseTermRest(_, _)
TermOperand(toks, o, acc, f) ==
    ParseTermRest(toks, Parsed(f.pos, Binary(o, acc.val, f.val)))

ParseTermRest(toks, acc) ==
    IF IsOp(toks, acc.pos, {"*", "/", "//"})
      THEN TermOperand(toks, toks[acc.pos].o, acc, ParseFactor(toks, acc.pos + 1))
      ELSE acc

ParseTerm(toks, i) == ParseTermRest(toks, ParseFactor(toks, i))

RECURSIVE ParseExprRest(_, _)
ExprOperand(toks, o, acc, t) ==
    ParseExprRest(toks, Parsed(t.pos, Binary(o, acc.val, t.val)))

ParseExprRest(toks, acc) ==
    IF IsOp(toks, acc.pos, {"+", "-"})
      THEN ExprOperand(toks, toks[acc.pos].o, acc, ParseTerm(toks, acc.pos + 1))
      ELSE acc

ParseExpr(toks, i) == ParseExprRest(toks, ParseTerm(toks, i))

\* The value of the parsed tokens; tokens left over are a syntax error.
EvalParsed(toks, r) ==
    IF r.pos # Len(toks) + 1 THEN Raise("SyntaxError") ELSE r.val

EvalTokens(toks) ==
    IF \E k \in 1..Len(toks) : toks[k].t = "bad" THEN Raise("SyntaxError")
    ELSE EvalParsed(toks, ParseExpr(toks, 1))

\* eval(text): the value, or the exception raised.
eval(text) == EvalTokens(Tokenize(text, 1))

(***************************************************************************)
(* Calculator._onClick, one operator per branch: the pair (expression,     *)
(* displayVar) the branch leaves.  known is FALSE when the branch computes *)
(* a value outside the precision of the model.                             *)
(***************************************************************************)
Outcome(e, d) == [expression |-> e, display |-> d, known |-> TRUE]
Unknown == [expression |-> <<>>, display |-> <<>>, known |-> FALSE]

\* "C" that empties the display instead of setting it to "0".
ClearOutcomeBlank == Outcome(<<>>, <<>>)

\* label == "C"
ClearOutcome == Outcome(<<>>, ZeroText)

\* Backspace that shows the buffer even when it is empty.
BackspaceOutcomeBlank(e) ==
    Outcome(Slice(e, 1, Len(e) - 1), Slice(e, 1, Len(e) - 1))

\* label == backspace: expression[:-1], shown as "0" when empty
BackspaceOutcome(e) ==
    LET rest == Slice(e, 1, Len(e) - 1)
    IN  Outcome(rest, IF rest # <<>> THEN rest ELSE ZeroText)

\* label == plus-minus: nothing on an empty or "0" buffer, else the leading
\* "-" is stripped or added and the display set to the buffer
SignToggleOutcome(e, d) ==
    IF e # <<>> /\ e \notin {ZeroText, <<>>}
      THEN LET toggled == IF StartsWith(e, "-") THEN Tail(e) ELSE <<"-">> \o e
           IN  Outcome(toggled, toggled)
      ELSE Outcome(e, d)

\* label == "%": str(float(expression) / 100), any exception shown as Error
PercentShown(value, reread) ==
    IF ~IsNumber(reread) \/ _format(reread) = <<>> THEN Unknown
    ELSE Outcome(value, _format(reread))

PercentValue(value) == PercentShown(value, float(value))

PercentOf(parsed, hundredth) ==
    IF IsException(parsed) THEN Outcome(<<>>, ErrorText)
    ELSE IF ~IsNumber(hundredth) THEN Unknown
    ELSE PercentValue(Str(hundredth))

\* "%" that divides by 10.
PercentParsedByTen(parsed) == PercentOf(parsed, TrueDiv(parsed, IntVal(1, 10)))

PercentParsed(parsed) == PercentOf(parsed, TrueDiv(parsed, IntVal(1, 100)))

PercentOutcome(e) == PercentParsed(float(e))

\* label == "=": eval(expression), ZeroDivisionError and any other exception
\* shown by their own texts
\* "=" without the except clause of ZeroDivisionError.
EqualsResultOneText(result) ==
    IF IsException(result) THEN Outcome(<<>>, ErrorText)
    ELSE IF ~IsObject(result) \/ _format(result) = <<>> THEN Unknown
    ELSE Outcome(Str(result), _format(result))

EqualsResult(result) ==
    IF result.k = "ZeroDivisionError" THEN Outcome(<<>>, DivZeroText)
    ELSE IF IsException(result) THEN Outcome(<<>>, ErrorText)
    ELSE IF ~IsObject(result) \/ _format(result) = <<>> THEN Unknown
    ELSE Outcome(Str(result), _format(result))

\* "=" whose except clauses leave the buffer as it is.
EqualsOutcomeKeepsBuffer(e) ==
    IF IsException(eval(e)) THEN Outcome(e, EqualsResult(eval(e)).display)
    ELSE EqualsResult(eval(e))

EqualsOutcome(e) == EqualsResult(eval(e))

\* any other label: the mapped character is appended and the buffer shown
AppendOutcome(e, label) ==
    LET char == opMap(label) IN Outcome(Append(e, char), Append(e, char))

(***************************************************************************)
(* The state machine.  Three variables record the calls made so far:       *)
(* lastLabel is the argument of the latest _onClick call ("" before the    *)
(* first), prevDisplay the display text that call found, and typed the     *)
(* sequence of labels pressed since the buffer was last empty, as long as  *)
(* all of them took the default branch (NotTyped otherwise).               *)
(***************************************************************************)
NotTyped == <<"*">>

\* The labels of the default branch that Spec presses.
AppendLabels == {"0", "2", "3", "5", ".", "+", "MINUS", "MUL", "DIV"}

\* The labels of the default branch that SpecExp presses.
ExpLabels == {"0", "1", "9", "."}

\* Calculator.__init__
Init ==
    /\ expression = <<>>
    /\ displayVar = ZeroText
    /\ lastLabel = ""
    /\ prevDisplay = <<>>
    /\ typed = <<>>

\* One call _onClick(label) that leaves outcome o.
Press(label, o) ==
    /\ o.known
    /\ expression' = o.expression
    /\ displayVar' = o.display
    /\ lastLabel' = label
    /\ prevDisplay' = displayVar
    /\ typed' = IF o.expression = <<>> THEN <<>>
                ELSE IF label \in AllAppendLabels /\ typed # NotTyped
                  THEN Append(typed, label)
                ELSE NotTyped

Clear == Press("C", ClearOutcome)

Backspace == Press("BKSP", BackspaceOutcome(expression))

SignToggle == Press("+/-", SignToggleOutcome(expression, displayVar))

Percent == Press("%", PercentOutcome(expression))

Equals == Press("=", EqualsOutcome(expression))

AppendChar(labels, max) ==
    \E label \in labels :
        /\ Len(expression) < max
        /\ Press(label, AppendOutcome(expression, label))

Default == AppendChar(AppendLabels, MaxLen)

DefaultExp == AppendChar(ExpLabels, MaxLenExp)

Next == Clear \/ Backspace \/ SignToggle \/ Percent \/ Equals \/ Default

Spec == Init /\ [][Next]_vars

\* The same machine over fewer labels and longer buffers: long enough to
\* type a number that str() writes with an exponent.
NextExp == Clear \/ Backspace \/ SignToggle \/ Percent \/ Equals \/ DefaultExp

SpecExp == Init /\ [][NextExp]_vars

(***************************************************************************)
(* Properties.                                                             *)
(***************************************************************************)
ErrorTexts == {ErrorText, DivZeroText}

OperatorChars == {"+", "-", "*", "/"}

EndsInOperator(e) == Len(e) > 0 /\ e[Len(e)] \in OperatorChars

\* An operator character that is neither a leading sign nor the sign of an
\* exponent.
HasInnerOperator(e) ==
    \E i \in 2..Len(e) : e[i] \in OperatorChars /\ e[i - 1] # "e"

\* The character the specification assigns to a label of the default branch.
CanonicalChar(label) ==
    IF label = "DIV" THEN "/"
    ELSE IF label = "MUL" THEN "*"
    ELSE IF label = "MINUS" THEN "-"
    ELSE label

CanonicalText(labels) == [i \in 1..Len(labels) |-> CanonicalChar(labels[i])]

IsPrefix(p, e) == Len(p) <= Len(e) /\ \A i \in 1..Len(p) : p[i] = e[i]

\* C1: in every reachable state the display is non-empty, and while the
\* buffer is empty the display shows "0" or an error text.
DisplayNeverEmpty ==
    /\ displayVar # <<>>
    /\ expression = <<>> => displayVar \in {ZeroText} \cup ErrorTexts

\* C2: a press of plus-minus on a buffer that is neither empty nor "0" is
\* undone by a second press (buffer and display are back at the buffer's
\* value before the first press); on an empty or "0" buffer the press changes
\* neither the buffer nor the display.
SignToggleInvolution ==
    [][lastLabel' = "+/-" =>
         IF expression \in {<<>>, ZeroText}
           THEN expression' = expression /\ displayVar' = displayVar
           ELSE /\ SignToggleOutcome(expression', displayVar').expression = expression
                /\ SignToggleOutcome(expression', displayVar').display = expression
      ]_vars

\* C3: when "=" is pressed on a buffer whose evaluation divides by zero, the
\* display becomes the divide-by-zero text and the buffer empty; when it is
\* pressed on a buffer that is empty, ends in an operator or otherwise cannot
\* be evaluated, the display becomes the generic error text and the buffer
\* empty.
EqualsClassifiesFailures ==
    [][lastLabel' = "=" =>
         /\ eval(expression).k = "ZeroDivisionError"
              => displayVar' = DivZeroText /\ expression' = <<>>
         /\ ( \/ expression = <<>>
              \/ EndsInOperator(expression)
              \/ eval(expression).k \in Exceptions \ {"ZeroDivisionError"} )
              => displayVar' = ErrorText /\ expression' = <<>>
      ]_vars

\* C3 witness: "=" has been pressed on a division by zero.
EqualsShowsDivZero ==
    lastLabel = "=" /\ displayVar = DivZeroText /\ expression = <<>>

\* C4: whenever the display shows an error text the buffer is empty and every
\* button can be pressed; a digit, "." or operator pressed then leaves a
\* buffer of exactly its one character, shown on the display.
ErrorThenFresh ==
    /\ displayVar \in ErrorTexts =>
         /\ expression = <<>>
         /\ ENABLED Clear /\ ENABLED Backspace /\ ENABLED SignToggle
         /\ ENABLED Percent /\ ENABLED Equals /\ ENABLED Default
    /\ (prevDisplay \in ErrorTexts /\ lastLabel \in AllAppendLabels) =>
         /\ expression = <<CanonicalChar(lastLabel)>>
         /\ displayVar = expression

\* C4 witness: an operator has been pressed on the display of an error.
FreshAfterError ==
    /\ prevDisplay = ErrorText
    /\ lastLabel = "DIV"
    /\ expression = <<"/">>
    /\ displayVar = <<"/">>

\* C5: after a press of "=" that shows no error text, a second press of "="
\* succeeds too and changes neither the display nor the buffer.
EqualsIdempotent ==
    [][(lastLabel = "=" /\ displayVar \notin ErrorTexts /\ lastLabel' = "=")
         => (displayVar' = displayVar /\ expression' = expression)
      ]_vars

\* C6: a press of a digit, "." or operator appends the label's canonical
\* character to the buffer, leaving what was there, and the display shows the
\* buffer; so after any sequence of such presses from an empty buffer the
\* buffer is the sequence of their canonical characters.
DefaultAppends ==
    [][/\ lastLabel' \in AllAppendLabels =>
            /\ expression' = Append(expression, CanonicalChar(lastLabel'))
            /\ displayVar' = expression'
       /\ typed' # NotTyped =>
            /\ expression' = CanonicalText(typed')
            /\ typed' # <<>> => displayVar' = expression'
      ]_vars

\* C6 witness: a digit and two operators typed from an empty buffer.
TypedOperators ==
    /\ typed = <<"5", "DIV", "MINUS">>
    /\ expression = <<"5", "/", "-">>
    /\ displayVar = expression

\* C7: when "%" is pressed on a buffer that reads as one number, the new
\* buffer is the text of that number divided by 100 and the display its
\* formatted value; when it is pressed on a buffer that does not (empty, a
\* lone sign, one holding an operator), the display becomes the generic error
\* text and the buffer empty.
PercentDividesOrFails ==
    [][lastLabel' = "%" =>
         /\ IsNumber(float(expression)) =>
              /\ float(expression') = TrueDiv(float(expression), IntVal(1, 100))
              /\ expression' = Str(float(expression'))
              /\ displayVar' = _format(float(expression'))
         /\ ( \/ expression \in {<<>>, <<"-">>, <<"+">>}
              \/ HasInnerOperator(expression)
              \/ float(expression).k = "ValueError" )
              => displayVar' = ErrorText /\ expression' = <<>>
      ]_vars

\* C7 witness: "%" has been pressed and left the buffer and display "0.5".
PercentOfFifty ==
    /\ lastLabel = "%"
    /\ prevDisplay = <<"5", "0">>
    /\ expression = <<"0", ".", "5">>
    /\ displayVar = <<"0", ".", "5">>

\* C8: backspace removes the last character of the buffer and keeps the rest;
\* the display then shows the buffer, or "0" when the buffer is empty.  On an
\* empty buffer it leaves the buffer empty and the display "0".
BackspaceDropsLast ==
    [][lastLabel' = "BKSP" =>
         /\ IsPrefix(expression', expression)
         /\ Len(expression') = (IF expression = <<>> THEN 0 ELSE Len(expression) - 1)
         /\ displayVar' = (IF expression' = <<>> THEN ZeroText ELSE expression')
      ]_vars

\* C8 witness: backspace has been pressed on the empty buffer an error left.
BackspaceAfterError ==
    /\ lastLabel = "BKSP"
    /\ prevDisplay \in ErrorTexts
    /\ expression = <<>>
    /\ displayVar = ZeroText

\* C9: "C" can be pressed in every state, and leaves the state of startup:
\* an empty buffer and the display "0".
ClearResets ==
    /\ ENABLED Clear
    /\ lastLabel = "C" =>
         /\ expression = <<>>
         /\ displayVar = ZeroText
         /\ typed = <<>>

\* C9 witness: "C" has been pressed on the display of a division by zero.
ClearAfterError ==
    lastLabel = "C" /\ prevDisplay = DivZeroText /\ displayVar = ZeroText

\* C10: a press of plus-minus on a buffer that is neither empty nor "0" and
\* evaluates to a number v leaves a buffer that evaluates to -v.
SignToggleNegatesValue ==
    [][( /\ lastLabel' = "+/-"
         /\ expression \notin {<<>>, ZeroText}
         /\ IsNumber(eval(expression))
         /\ eval(expression').k # "unrep" )
         => eval(expression') = Negative(eval(expression))
      ]_vars

====
